---- MODULE Spec2Model ----
(***************************************************************************)
(* Model of include/openai/openai.hpp: the curl Session, the OpenAI        *)
(* facade, the category wrappers and the configure()/instance() singleton. *)
(*                                                                         *)
(* Strings are sequences of tokens, so std::string operator+ is \o and a   *)
(* URL is the sequence of the pieces it was concatenated from.  Response   *)
(* texts are token sequences which Parse reads the way Json::parse does.   *)
(***************************************************************************)
EXTENDS Integers, Sequences, FiniteSets, TLC

\* ------------------------------------------------------------------ bounds
\* Number of threads that call into the one facade.
NumThreads == 2

Threads == 1..NumThreads

\* ----------------------------------------------------------------- strings
EmptyStr == <<>>

\* What a reader of a std::string sees while another thread is assigning it
\* (a data race: the value is indeterminate).
TornStr == <<"<indeterminate>">>

\* Body bytes read through a CURLOPT_POSTFIELDS pointer whose string is gone.
DanglingBody == <<"<freed>">>

DefaultBaseUrl == <<"https://api.openai.com/v1/">>

BaseUrls == {DefaultBaseUrl, <<"http://localhost:8080/">>}

Tokens == {<<"sk-A">>, <<"sk-B">>}

Organizations == {EmptyStr, <<"org-1">>}

PathIds == {<<"id1">>, <<"id2">>}

\* -------------------------------------------------------------------- JSON
ScalarTokens == {"null", "1", "\"bad\""}

KeyTokens == {"\"error\"", "\"id\""}

JsonNull == [kind |-> "null", items |-> <<>>]

ScalarJson(tok) ==
    [kind |-> IF tok = "null" THEN "null" ELSE IF tok = "1" THEN "number" ELSE "string",
     items |-> IF tok = "null" THEN <<>> ELSE <<[key |-> "", val |-> tok]>>]

ParseFailure == [ok |-> FALSE, json |-> JsonNull]

\* members ::= key ":" scalar { "," key ":" scalar }
RECURSIVE ParseMembers(_)
ParseMembers(toks) ==
    IF Len(toks) < 3 \/ toks[1] \notin KeyTokens \/ toks[2] # ":" \/ toks[3] \notin ScalarTokens
    THEN [ok |-> FALSE, items |-> <<>>]
    ELSE IF Len(toks) = 3
         THEN [ok |-> TRUE, items |-> <<[key |-> toks[1], val |-> toks[3]]>>]
         ELSE IF toks[4] # ","
              THEN [ok |-> FALSE, items |-> <<>>]
              ELSE LET rest == ParseMembers(SubSeq(toks, 5, Len(toks)))
                   IN  [ok |-> rest.ok,
                        items |-> <<[key |-> toks[1], val |-> toks[3]]>> \o rest.items]

\* Json::parse: the parsed value, or ok = FALSE where it throws parse_error.
Parse(text) ==
    IF Len(text) = 0 THEN ParseFailure
    ELSE IF Len(text) = 1
         THEN IF text[1] \in ScalarTokens
              THEN [ok |-> TRUE, json |-> ScalarJson(text[1])]
              ELSE ParseFailure
         ELSE IF text[1] = "{" /\ text[Len(text)] = "}"
              THEN IF Len(text) = 2
                   THEN [ok |-> TRUE, json |-> [kind |-> "object", items |-> <<>>]]
                   ELSE LET m == ParseMembers(SubSeq(text, 2, Len(text) - 1))
                        IN  IF m.ok
                            THEN [ok |-> TRUE, json |-> [kind |-> "object", items |-> m.items]]
                            ELSE ParseFailure
              ELSE IF text[1] = "[" /\ text[Len(text)] = "]"
                   THEN IF Len(text) = 2
                        THEN [ok |-> TRUE, json |-> [kind |-> "array", items |-> <<>>]]
                        ELSE IF Len(text) = 3 /\ text[2] \in ScalarTokens
                             THEN [ok |-> TRUE,
                                   json |-> [kind |-> "array",
                                             items |-> <<[key |-> "", val |-> text[2]]>>]]
                             ELSE ParseFailure
                   ELSE ParseFailure

\* Json::count(key): 0 for anything that is not an object.
JsonCount(json, key) ==
    IF json.kind # "object" THEN 0
    ELSE Cardinality({i \in 1..Len(json.items) : json.items[i].key = key})

\* json[key].dump() for a key that is present.
JsonAtDump(json, key) ==
    LET i == CHOOSE i \in 1..Len(json.items) : json.items[i].key = key
    IN  <<json.items[i].val>>

RECURSIVE DumpMembers(_)
DumpMembers(items) ==
    IF Len(items) = 0 THEN <<>>
    ELSE <<items[1].key, ":", items[1].val>>
         \o (IF Len(items) = 1 THEN <<>> ELSE <<",">> \o DumpMembers(Tail(items)))

\* Json::dump().
JsonDump(json) ==
    IF json.kind = "null" THEN <<"null">>
    ELSE IF json.kind = "object" THEN <<"{">> \o DumpMembers(json.items) \o <<"}">>
    ELSE IF json.kind = "array"
         THEN <<"[">> \o (IF Len(json.items) = 0 THEN <<>> ELSE <<json.items[1].val>>) \o <<"]">>
         ELSE <<json.items[1].val>>

\* Response bodies a server (or a broken transfer) can leave in response_string.
JsonTexts ==
    { <<"{", "}">>,
      <<"{", "\"id\"", ":", "1", "}">>,
      <<"{", "\"error\"", ":", "\"bad\"", "}">>,
      <<"{", "\"id\"", ":", "1", ",", "\"error\"", ":", "null", "}">>,
      <<"[", "1", "]">>,
      <<"\"bad\"">> }

NonJsonTexts ==
    { EmptyStr, <<"<html>">>, <<"{", "\"error\"", ":">> }

OkTexts == JsonTexts \cup NonJsonTexts

\* After a failed transfer response_string holds whatever arrived before it.
FailTexts == { EmptyStr, <<"{", "\"error\"", ":", "\"bad\"", "}">> }

\* Request bodies handed to post.
InputJsons ==
    { [kind |-> "object", items |-> <<>>],
      [kind |-> "object", items |-> <<[key |-> "\"id\"", val |-> "1"]>>] }

Bodies == {JsonDump(j) : j \in InputJsons}


\* ------------------------------------------------------------------- state
VARIABLES
    openai,          \* OpenAI: base_url, token_, organization_, throw_exception_
    session,         \* Session: url_, token_, organization_, throw_exception_
    mutex_request_,  \* Session::mutex_request_: 0 when free, else the owner
    url_writers,     \* threads in the middle of the assignment url_ = url
    curl,            \* options held by the reused easy handle curl_
    wire,            \* the request curl_easy_perform is transferring, if any
                     \* (raced: url_ was read during another thread's write)
    served,          \* the method of the last transfer that completed, if any
    pc,              \* where each thread is inside facade get/post
    call,            \* the arguments of each thread's call
    response,        \* each thread's Response (and res_)
    outcome,         \* how each thread's call ended
    ctor,            \* the arguments the facade was constructed with
    singleton        \* the function-local static of configure()

vars == <<openai, session, mutex_request_, url_writers, curl, wire, served,
          pc, call, response, outcome, ctor, singleton>>

NoCall ==
    [op |-> "none", id |-> EmptyStr, verb |-> "NONE", suffix |-> EmptyStr,
     data |-> EmptyStr, complete_url |-> EmptyStr]

NoResponse ==
    [res |-> "NONE", text |-> EmptyStr, is_error |-> FALSE, error_message |-> EmptyStr]

NoOutcome == [status |-> "none", what |-> EmptyStr, json |-> JsonNull, diag |-> 0]

NoWire ==
    [by |-> 0, url |-> EmptyStr, method |-> "NONE", body |-> EmptyStr, headers |-> <<>>,
     raced |-> FALSE]

NoArgs == [token |-> EmptyStr, organization |-> EmptyStr, throw_exception |-> FALSE]

\* No OpenAI object has been constructed.
NoCtor == [built |-> 0, token |-> EmptyStr, organization |-> EmptyStr,
           throw_exception |-> FALSE]

\* configure() has never been entered.
NoSingleton == [called |-> FALSE, first |-> NoArgs, last |-> NoArgs, returned |-> {}]

\* A facade that does not exist yet (before the static in configure is built).
NoOpenAI ==
    [base_url |-> EmptyStr, token_ |-> EmptyStr, organization_ |-> EmptyStr,
     throw_exception_ |-> FALSE]

NoSession ==
    [url_ |-> EmptyStr, token_ |-> EmptyStr, organization_ |-> EmptyStr,
     throw_exception_ |-> FALSE]

\* curl_easy_init(): a fresh handle does a GET and has no body or URL.
curl_easy_init ==
    [method |-> "GET",
     postfields |-> [data |-> EmptyStr, owner |-> 0, alive |-> FALSE],
     url |-> EmptyStr,
     headers |-> <<>>]

\* ------------------------------------------------------------ construction
\* OpenAI::OpenAI(token, organization, throw_exception) with Session::Session.
OpenAI_ctor(token, organization, throw_exception) ==
    [openai  |-> [base_url |-> DefaultBaseUrl,
                  token_ |-> token,
                  organization_ |-> organization,
                  throw_exception_ |-> throw_exception],
     session |-> [url_ |-> <<"https://api.openai.com/v1/">>,
                  token_ |-> token,
                  organization_ |-> organization,
                  throw_exception_ |-> throw_exception]]

\* ---------------------------------------------------------------- the handle
\* curl_easy_setopt(curl_, CURLOPT_POSTFIELDS, p): remembers the pointer and
\* switches the handle to POST.
SetoptPostFields(h, t, data) ==
    [h EXCEPT !.postfields = [data |-> data, owner |-> t, alive |-> TRUE],
              !.method = "POST"]

\* curl_easy_setopt(curl_, CURLOPT_HTTPGET, v)
SetoptHttpGet(h, v) == IF v THEN [h EXCEPT !.method = "GET"] ELSE h

\* curl_easy_setopt(curl_, CURLOPT_POST, v)
SetoptPost(h, v) == [h EXCEPT !.method = IF v THEN "POST" ELSE "GET"]

\* curl_easy_setopt(curl_, CURLOPT_NOBODY, v)
SetoptNoBody(h, v) ==
    IF v THEN [h EXCEPT !.method = "HEAD"]
    ELSE IF h.method = "HEAD" THEN [h EXCEPT !.method = "GET"] ELSE h

\* Session::setBody
setBody(h, t, data) == SetoptPostFields(h, t, data)

Session_get_NoReset(h) == h

\* Session::get, the options it sets before makeRequest
Session_get(h) == SetoptNoBody(SetoptPost(SetoptHttpGet(h, TRUE), FALSE), FALSE)

\* Session::post sets nothing before makeRequest
Session_post(h) == h

\* The header list makeRequest builds.
makeRequestHeaders(s) ==
    <<  <<"Content-Type: application/json">>,
        <<"Authorization: Bearer ">> \o s.token_ >>
    \o (IF s.organization_ # EmptyStr
        THEN << <<"OpenAI-Organization: ">> \o s.organization_ >>
        ELSE <<>>)

\* The body bytes libcurl sends: none unless the method is POST; through a
\* pointer whose string was destroyed, anything.
SentBodies(h) ==
    IF h.method # "POST" THEN {EmptyStr}
    ELSE IF h.postfields.alive THEN {h.postfields.data}
         ELSE {h.postfields.data, DanglingBody}

\* What makeRequest reads from url_: indeterminate while another thread is
\* assigning it.
UrlReads(t) ==
    IF url_writers \ {t} = {} THEN {session.url_}
    ELSE {session.url_, TornStr} \cup {call[u].complete_url : u \in url_writers \ {t}}

makeRequestError_Inverted(throw_exception, res) ==
    IF res = "CURLE_OK"
    THEN [is_error |-> FALSE, error_msg |-> EmptyStr, raised |-> FALSE, diag |-> 0]
    ELSE [is_error |-> TRUE,
          error_msg |-> <<"curl_easy_perform() failed ", res>>,
          raised |-> ~throw_exception,
          diag |-> IF ~throw_exception THEN 0 ELSE 1]

\* makeRequest after curl_easy_perform: is_error, error_msg, whether it throws
\* and how many lines it writes to std::cerr.
makeRequestError(throw_exception, res) ==
    IF res = "CURLE_OK"
    THEN [is_error |-> FALSE, error_msg |-> EmptyStr, raised |-> FALSE, diag |-> 0]
    ELSE [is_error |-> TRUE,
          error_msg |-> <<"curl_easy_perform() failed ", res>>,
          raised |-> throw_exception,
          diag |-> IF throw_exception THEN 0 ELSE 1]

LockGuardRelease_Leak(owner, raised) == IF raised THEN owner ELSE 0

\* ~lock_guard: runs on return and during unwinding alike.
LockGuardRelease(owner, raised) == 0

\* ------------------------------------------------------------------ facade
setParameters_Append(o, s, suffix) == s.url_ \o suffix

\* OpenAI::setParameters: complete_url
setParameters(o, s, suffix) == o.base_url \o suffix

\* OpenAI::trigger_error
trigger_error(throw_exception, msg) ==
    [raised |-> throw_exception, diag |-> IF throw_exception THEN 0 ELSE 1]

checkResponse_Ignore(throw_exception, json) ==
    [raised |-> FALSE, what |-> EmptyStr, diag |-> 0]

\* OpenAI::checkResponse
checkResponse(throw_exception, json) ==
    IF JsonCount(json, "\"error\"") > 0
    THEN LET reason == JsonAtDump(json, "\"error\"")
             e == trigger_error(throw_exception, reason)
         IN  [raised |-> e.raised, what |-> reason, diag |-> e.diag]
    ELSE [raised |-> FALSE, what |-> EmptyStr, diag |-> 0]

isJson_AlwaysTrue(data) == TRUE

\* OpenAI::isJson
isJson(data) == Parse(data).ok

\* OpenAI::get / OpenAI::post after session_.get()/post() has returned r;
\* diag0 lines were already written by makeRequest.
Interpret(throw_exception, r, diag0) ==
    LET e1 == IF r.is_error THEN trigger_error(throw_exception, r.error_message)
              ELSE [raised |-> FALSE, diag |-> 0]
    IN  IF e1.raised
        THEN [status |-> "raised", what |-> r.error_message, json |-> JsonNull, diag |-> diag0]
        ELSE IF isJson(r.text)
             THEN LET p == Parse(r.text)
                  IN  IF ~p.ok
                      THEN [status |-> "raised", what |-> <<"parse_error">>,
                            json |-> JsonNull, diag |-> diag0 + e1.diag]
                      ELSE LET e2 == checkResponse(throw_exception, p.json)
                           IN  IF e2.raised
                               THEN [status |-> "raised", what |-> e2.what,
                                     json |-> JsonNull, diag |-> diag0 + e1.diag]
                               ELSE [status |-> "returned", what |-> EmptyStr,
                                     json |-> p.json,
                                     diag |-> diag0 + e1.diag + e2.diag]
             ELSE [status |-> "returned", what |-> EmptyStr, json |-> JsonNull,
                   diag |-> diag0 + e1.diag]


\* ------------------------------------------------------- category wrappers
\* Each wrapper method: the verb it delegates to and the suffix it builds
\* from its path parameter.
CategoryOps ==
    { "model.list", "model.retrieve", "completion.create", "edit.create",
      "image.create", "image.edit", "image.variation", "embedding.create",
      "file.list", "file.upload", "file.retrieve", "file.content",
      "fine_tune.create", "fine_tune.list", "fine_tune.retrieve",
      "fine_tune.content", "fine_tune.cancel", "fine_tune.events",
      "moderation.create" }

CategoryVerb(op) ==
    IF op \in { "completion.create", "edit.create", "image.create", "image.edit",
                "image.variation", "embedding.create", "file.upload",
                "fine_tune.create", "moderation.create" }
    THEN "POST" ELSE "GET"

CategoryHasId(op) ==
    op \in { "model.retrieve", "file.retrieve", "file.content", "fine_tune.retrieve",
             "fine_tune.content", "fine_tune.cancel", "fine_tune.events" }

CategorySuffix(op, id) ==
    CASE op = "model.list"         -> <<"models">>
      [] op = "model.retrieve"     -> <<"models/">> \o id
      [] op = "completion.create"  -> <<"completions">>
      [] op = "edit.create"        -> <<"edits">>
      [] op = "image.create"       -> <<"images/generations">>
      [] op = "image.edit"         -> <<"images/edits">>
      [] op = "image.variation"    -> <<"images/variations">>
      [] op = "embedding.create"   -> <<"embeddings">>
      [] op = "file.list"          -> <<"files">>
      [] op = "file.upload"        -> <<"files">>
      [] op = "file.retrieve"      -> <<"files/">> \o id
      [] op = "file.content"       -> <<"files/">> \o id \o <<"/content">>
      [] op = "fine_tune.create"   -> <<"fine-tunes">>
      [] op = "fine_tune.list"     -> <<"fine-tunes">>
      [] op = "fine_tune.retrieve" -> <<"fine-tunes/">> \o id
      [] op = "fine_tune.content"  -> <<"fine-tunes/">> \o id \o <<"/content">>
      [] op = "fine_tune.cancel"   -> <<"fine-tunes/">> \o id \o <<"/cancel">>
      [] op = "fine_tune.events"   -> <<"fine-tunes/">> \o id \o <<"/events">>
      [] op = "moderation.create"  -> <<"moderations">>

\* ----------------------------------------------------------------- actions
Main == CHOOSE t \in Threads : \A u \in Threads : t <= u

Exists == ctor.built > 0

\* Entry of OpenAI::get / OpenAI::post: setParameters computes complete_url
\* and Session::setUrl starts assigning it to url_.
BeginCall(t, o, s, op, id, verb, suffix, data) ==
    /\ pc[t] = "idle"
    /\ call' = [call EXCEPT ![t] =
                  [op |-> op, id |-> id, verb |-> verb, suffix |-> suffix, data |-> data,
                   complete_url |-> setParameters(o, s, suffix)]]
    /\ url_writers' = url_writers \cup {t}
    /\ pc' = [pc EXCEPT ![t] = "setUrl"]
    /\ UNCHANGED <<mutex_request_, wire, served, response, outcome>>

\* OpenAI::get(suffix, data)
OpenAI_get(t, suffix, data) ==
    /\ Exists
    /\ BeginCall(t, openai, session, "get", EmptyStr, "GET", suffix, data)
    /\ UNCHANGED <<openai, session, curl, ctor, singleton>>

\* OpenAI::post(suffix, data)
OpenAI_post(t, suffix, data) ==
    /\ Exists
    /\ BeginCall(t, openai, session, "post", EmptyStr, "POST", suffix, data)
    /\ UNCHANGED <<openai, session, curl, ctor, singleton>>

\* A category wrapper method: a get with the default data "" or a post of
\* input.dump().
CategoryCall(t, op, id, input) ==
    /\ Exists
    /\ BeginCall(t, openai, session, op, IF CategoryHasId(op) THEN id ELSE EmptyStr,
                 CategoryVerb(op), CategorySuffix(op, id),
                 IF CategoryVerb(op) = "POST" THEN JsonDump(input) ELSE EmptyStr)
    /\ UNCHANGED <<openai, session, curl, ctor, singleton>>

\* Session::setUrl completes: url_ = url.  Two unsynchronised assignments
\* leave an indeterminate string.
SetUrl(t) ==
    /\ pc[t] = "setUrl"
    /\ \E v \in (IF url_writers \ {t} = {} THEN {call[t].complete_url}
                 ELSE {call[t].complete_url, TornStr}) :
          session' = [session EXCEPT !.url_ = v]
    /\ url_writers' = url_writers \ {t}
    /\ pc' = [pc EXCEPT ![t] = "setBody"]
    /\ UNCHANGED <<openai, mutex_request_, curl, wire, served, call, response,
                   outcome, ctor, singleton>>

\* Session::setBody(data), the last statement of setParameters
SetBody(t) ==
    /\ pc[t] = "setBody"
    /\ curl' = setBody(curl, t, call[t].data)
    /\ pc' = [pc EXCEPT ![t] = "session"]
    /\ UNCHANGED <<openai, session, mutex_request_, url_writers, wire, served,
                   call, response, outcome, ctor, singleton>>

\* session_.get(): the three options, then makeRequest waits for the mutex
SessionGet(t) ==
    /\ pc[t] = "session"
    /\ call[t].verb = "GET"
    /\ curl' = Session_get(curl)
    /\ pc' = [pc EXCEPT ![t] = "lock"]
    /\ UNCHANGED <<openai, session, mutex_request_, url_writers, wire, served,
                   call, response, outcome, ctor, singleton>>

\* session_.post(): makeRequest waits for the mutex
SessionPost(t) ==
    /\ pc[t] = "session"
    /\ call[t].verb = "POST"
    /\ curl' = Session_post(curl)
    /\ pc' = [pc EXCEPT ![t] = "lock"]
    /\ UNCHANGED <<openai, session, mutex_request_, url_writers, wire, served,
                   call, response, outcome, ctor, singleton>>

\* makeRequest: takes the lock, builds the headers, sets CURLOPT_URL from
\* url_ and enters curl_easy_perform, which puts the request on the wire.
MakeRequestBegin(t) ==
    /\ pc[t] = "lock"
    /\ mutex_request_ = 0
    /\ mutex_request_' = t
    /\ \E u \in UrlReads(t) :
          /\ curl' = [curl EXCEPT !.headers = makeRequestHeaders(session), !.url = u]
          /\ \E b \in SentBodies(curl) :
                wire' = [by |-> t, url |-> u, method |-> curl.method, body |-> b,
                         headers |-> makeRequestHeaders(session),
                         raced |-> url_writers \ {t} # {}]
    /\ pc' = [pc EXCEPT ![t] = "perform"]
    /\ UNCHANGED <<openai, session, url_writers, served, call, response, outcome,
                   ctor, singleton>>

\* The string a CURLOPT_POSTFIELDS pointer refers to dies with the call that
\* passed it.
EndOfCall(h, t) ==
    IF h.postfields.owner = t THEN [h EXCEPT !.postfields.alive = FALSE] ELSE h

\* curl_easy_perform returns res with text in response_string; makeRequest
\* handles a failure and leaves (by return or by throw), releasing the lock.
MakeRequestEnd(t, res, text) ==
    /\ pc[t] = "perform"
    /\ LET e == makeRequestError(session.throw_exception_, res)
       IN  /\ response' = [response EXCEPT ![t] =
                             [res |-> res, text |-> text, is_error |-> e.is_error,
                              error_message |-> e.error_msg]]
           /\ mutex_request_' = LockGuardRelease(mutex_request_, e.raised)
           /\ IF e.raised
              THEN /\ outcome' = [outcome EXCEPT ![t] =
                                    [status |-> "raised", what |-> e.error_msg,
                                     json |-> JsonNull, diag |-> e.diag]]
                   /\ curl' = EndOfCall(curl, t)
                   /\ pc' = [pc EXCEPT ![t] = "done"]
              ELSE /\ outcome' = [outcome EXCEPT ![t] =
                                    [NoOutcome EXCEPT !.diag = e.diag]]
                   /\ curl' = curl
                   /\ pc' = [pc EXCEPT ![t] = "interpret"]
    /\ wire' = NoWire
    /\ served' = wire.method
    /\ UNCHANGED <<openai, session, url_writers, call, ctor, singleton>>

\* The rest of OpenAI::get / OpenAI::post once session_ has returned.
InterpretResponse(t) ==
    /\ pc[t] = "interpret"
    /\ outcome' = [outcome EXCEPT ![t] =
                     Interpret(openai.throw_exception_, response[t], outcome[t].diag)]
    /\ curl' = EndOfCall(curl, t)
    /\ pc' = [pc EXCEPT ![t] = "done"]
    /\ UNCHANGED <<openai, session, mutex_request_, url_writers, wire, served,
                   call, response, ctor, singleton>>

\* The caller has the result (or has caught the exception) and moves on.
Return(t) ==
    /\ pc[t] = "done"
    /\ pc' = [pc EXCEPT ![t] = "idle"]
    /\ call' = [call EXCEPT ![t] = NoCall]
    /\ response' = [response EXCEPT ![t] = NoResponse]
    /\ outcome' = [outcome EXCEPT ![t] = NoOutcome]
    /\ UNCHANGED <<openai, session, mutex_request_, url_writers, curl, wire,
                   served, ctor, singleton>>

\* The facade is reconfigured between calls, never while one is running.
Quiescent == \A t \in Threads : pc[t] = "idle"

\* OpenAI::set_throw_exception
set_throw_exception(b) ==
    /\ Exists /\ Quiescent
    /\ openai' = [openai EXCEPT !.throw_exception_ = b]
    /\ UNCHANGED <<session, mutex_request_, url_writers, curl, wire, served, pc,
                   call, response, outcome, ctor, singleton>>

\* OpenAI::setBaseUrl
setBaseUrl(url) ==
    /\ Exists /\ Quiescent
    /\ openai' = [openai EXCEPT !.base_url = url]
    /\ UNCHANGED <<session, mutex_request_, url_writers, curl, wire, served, pc,
                   call, response, outcome, ctor, singleton>>

\* An assignment to the public field OpenAI::organization_
SetOrganizationField(org) ==
    /\ Exists /\ Quiescent
    /\ openai' = [openai EXCEPT !.organization_ = org]
    /\ UNCHANGED <<session, mutex_request_, url_writers, curl, wire, served, pc,
                   call, response, outcome, ctor, singleton>>


\* --------------------------------------------------------------- singleton
configure_Rebuild(c, o, s, h, token, organization, throw_exception) ==
    LET n == OpenAI_ctor(token, organization, throw_exception)
    IN  [ctor |-> [built |-> c.built + 1, token |-> token,
                   organization |-> organization,
                   throw_exception |-> throw_exception],
         openai |-> n.openai, session |-> n.session, curl |-> curl_easy_init]

\* configure(token, organization, throw_exception): the static instance is
\* constructed by the first call that reaches its declaration.
configure(c, o, s, h, token, organization, throw_exception) ==
    IF c.built = 0
    THEN LET n == OpenAI_ctor(token, organization, throw_exception)
         IN  [ctor |-> [built |-> 1, token |-> token, organization |-> organization,
                        throw_exception |-> throw_exception],
              openai |-> n.openai, session |-> n.session, curl |-> curl_easy_init]
    ELSE [ctor |-> c, openai |-> o, session |-> s, curl |-> h]

\* instance() is configure("") with the default organization and error mode.
instance(c, o, s, h) == configure(c, o, s, h, EmptyStr, EmptyStr, TRUE)

\* What the program can observe of a call of an accessor: the arguments of
\* the first and of the latest call, and which object each call returned.
Accessed(g, args) ==
    /\ ctor' = g.ctor
    /\ openai' = g.openai
    /\ session' = g.session
    /\ curl' = g.curl
    /\ singleton' = [called |-> TRUE,
                     first |-> IF singleton.called THEN singleton.first ELSE args,
                     last |-> args,
                     returned |-> singleton.returned \cup {g.ctor.built}]

\* A call of openai::configure(token, organization, throw_exception)
Configure(token, organization, throw_exception) ==
    /\ Quiescent
    /\ Accessed(configure(ctor, openai, session, curl, token, organization, throw_exception),
                [token |-> token, organization |-> organization,
                 throw_exception |-> throw_exception])
    /\ UNCHANGED <<mutex_request_, url_writers, wire, served, pc, call, response, outcome>>

DefaultArgs == [token |-> EmptyStr, organization |-> EmptyStr, throw_exception |-> TRUE]

\* A call of openai::instance()
Instance ==
    /\ Quiescent
    /\ Accessed(instance(ctor, openai, session, curl), DefaultArgs)
    /\ UNCHANGED <<mutex_request_, url_writers, wire, served, pc, call, response, outcome>>

\* The free helper openai::get(suffix)
HelperGet(t, suffix) ==
    LET g == instance(ctor, openai, session, curl)
    IN  /\ Quiescent
        /\ Accessed(g, DefaultArgs)
        /\ BeginCall(t, g.openai, g.session, "get", EmptyStr, "GET", suffix, EmptyStr)

\* The free helper openai::post(suffix, json)
HelperPost(t, suffix, json) ==
    LET g == instance(ctor, openai, session, curl)
    IN  /\ Quiescent
        /\ Accessed(g, DefaultArgs)
        /\ BeginCall(t, g.openai, g.session, "post", EmptyStr, "POST", suffix, JsonDump(json))

\* A free category helper followed by a method: openai::file().content(id)
HelperCategory(t, op, id, input) ==
    LET g == instance(ctor, openai, session, curl)
    IN  /\ Quiescent
        /\ Accessed(g, DefaultArgs)
        /\ BeginCall(t, g.openai, g.session, op, IF CategoryHasId(op) THEN id ELSE EmptyStr,
                     CategoryVerb(op), CategorySuffix(op, id),
                     IF CategoryVerb(op) = "POST" THEN JsonDump(input) ELSE EmptyStr)

\* ---------------------------------------------------------- specifications
Results == ({"CURLE_OK"} \X OkTexts) \cup ({"CURLE_COULDNT_CONNECT"} \X FailTexts)

FacadeSuffixes == {<<"models">>, <<"completions">>}

\* The steps of one call by thread t, with the transfer ending in one of rs.
Steps(t, rs) ==
    \/ SetUrl(t)
    \/ SetBody(t)
    \/ SessionGet(t)
    \/ SessionPost(t)
    \/ MakeRequestBegin(t)
    \/ \E r \in rs : MakeRequestEnd(t, r[1], r[2])
    \/ InterpretResponse(t)
    \/ Return(t)

\* The state after OpenAI x{token, organization, throw_exception}.
Constructed(token, organization, throw_exception) ==
    LET n == OpenAI_ctor(token, organization, throw_exception)
    IN  /\ openai = n.openai
        /\ session = n.session
        /\ ctor = [built |-> 1, token |-> token, organization |-> organization,
                   throw_exception |-> throw_exception]

Untouched ==
    /\ mutex_request_ = 0
    /\ url_writers = {}
    /\ curl = curl_easy_init
    /\ wire = NoWire
    /\ served = "NONE"
    /\ pc = [t \in Threads |-> "idle"]
    /\ call = [t \in Threads |-> NoCall]
    /\ response = [t \in Threads |-> NoResponse]
    /\ outcome = [t \in Threads |-> NoOutcome]
    /\ singleton = NoSingleton

\* One thread using a facade it constructed: generic get/post and the error
\* mode and organization changed between calls.
Init ==
    /\ \E tok \in Tokens, org \in Organizations, thr \in BOOLEAN :
          Constructed(tok, org, thr)
    /\ Untouched

Next ==
    \/ \E s \in FacadeSuffixes, d \in {EmptyStr} \cup Bodies : OpenAI_get(Main, s, d)
    \/ \E s \in FacadeSuffixes, d \in {EmptyStr} \cup Bodies : OpenAI_post(Main, s, d)
    \/ Steps(Main, Results)
    \/ \E b \in BOOLEAN : set_throw_exception(b)
    \/ \E org \in Organizations : SetOrganizationField(org)

Spec == Init /\ [][Next]_vars

\* One thread going through the category wrappers, with the base URL changed
\* between calls.
InitCategory ==
    /\ \E thr \in BOOLEAN : Constructed(<<"sk-A">>, EmptyStr, thr)
    /\ Untouched

CategoryResults ==
    { <<"CURLE_OK", <<"{", "}">> >>, <<"CURLE_COULDNT_CONNECT", EmptyStr>> }

NextCategory ==
    \/ \E op \in CategoryOps, id \in PathIds, input \in InputJsons :
          CategoryCall(Main, op, id, input)
    \/ Steps(Main, CategoryResults)
    \/ \E u \in BaseUrls : setBaseUrl(u)

SpecCategory == InitCategory /\ [][NextCategory]_vars

\* Several threads calling get/post on the same facade.
InitThreads ==
    /\ \E thr \in BOOLEAN : Constructed(<<"sk-A">>, EmptyStr, thr)
    /\ Untouched

NextThreads ==
    \E t \in Threads :
       \/ OpenAI_get(t, <<"models">>, EmptyStr)
       \/ \E d \in Bodies : OpenAI_post(t, <<"completions">>, d)
       \/ Steps(t, CategoryResults)

SpecThreads == InitThreads /\ [][NextThreads]_vars

\* A program that reaches the facade only through configure(), instance()
\* and the free helpers.
InitSingleton ==
    /\ openai = NoOpenAI
    /\ session = NoSession
    /\ ctor = NoCtor
    /\ Untouched

NextSingleton ==
    \/ \E tok \in Tokens \cup {EmptyStr}, org \in Organizations, thr \in BOOLEAN :
          Configure(tok, org, thr)
    \/ Instance
    \/ \E s \in FacadeSuffixes : HelperGet(Main, s)
    \/ \E s \in FacadeSuffixes, j \in InputJsons : HelperPost(Main, s, j)
    \/ \E op \in {"model.list", "file.content", "completion.create"},
          id \in PathIds, input \in InputJsons :
          HelperCategory(Main, op, id, input)
    \/ Steps(Main, CategoryResults)

SpecSingleton == InitSingleton /\ [][NextSingleton]_vars


\* ------------------------------------------------------------------ claims
Finished(t) == pc[t] = "done"

TransportFailed(t) == response[t].res \notin {"NONE", "CURLE_OK"}

TransportOk(t) == response[t].res = "CURLE_OK"

\* The response texts that are JSON objects with an error member, and the
\* serialization of that member.
ErrorTexts ==
    { <<"{", "\"error\"", ":", "\"bad\"", "}">>,
      <<"{", "\"id\"", ":", "1", ",", "\"error\"", ":", "null", "}">> }

ErrorValueText(text) ==
    IF text = <<"{", "\"error\"", ":", "\"bad\"", "}">> THEN <<"\"bad\"">> ELSE <<"null">>

\* C1: while the facade's error mode is the one it was constructed with, a
\* get/post whose transfer failed has raised if that mode is hard failure, and
\* has returned after writing at least one diagnostic if it is soft.
C1_TransportFailurePolicy ==
    \A t \in Threads :
        (Finished(t) /\ TransportFailed(t)
            /\ openai.throw_exception_ = ctor.throw_exception)
        => IF ctor.throw_exception
           THEN outcome[t].status = "raised"
           ELSE outcome[t].status = "returned" /\ outcome[t].diag >= 1

C1_Witness ==
    /\ Finished(Main) /\ TransportFailed(Main)
    /\ ~ctor.throw_exception /\ ~openai.throw_exception_
    /\ outcome[Main].status = "returned" /\ outcome[Main].diag >= 1

\* C2: every get/post handles a transport failure and an API error under the
\* mode most recently set with set_throw_exception: it has raised exactly
\* when that mode is hard failure.
C2_LatestModeGoverns ==
    \A t \in Threads :
        (Finished(t) /\ (TransportFailed(t)
                            \/ (TransportOk(t) /\ response[t].text \in ErrorTexts)))
        => (outcome[t].status = "raised" <=> openai.throw_exception_)

\* C3: a transfer that succeeded with a JSON text holding an error member
\* raises with the serialized error value in hard mode, and in soft mode
\* writes a diagnostic and returns the parsed payload; a JSON text without
\* an error member is returned parsed in either mode.
C3_ApiErrorPolicy ==
    \A t \in Threads :
        (Finished(t) /\ TransportOk(t) /\ response[t].text \in JsonTexts)
        => IF response[t].text \in ErrorTexts
           THEN IF openai.throw_exception_
                THEN /\ outcome[t].status = "raised"
                     /\ outcome[t].what = ErrorValueText(response[t].text)
                ELSE /\ outcome[t].status = "returned"
                     /\ outcome[t].diag >= 1
                     /\ JsonDump(outcome[t].json) = response[t].text
           ELSE /\ outcome[t].status = "returned"
                /\ outcome[t].diag = 0
                /\ JsonDump(outcome[t].json) = response[t].text

C3_Witness ==
    /\ Finished(Main) /\ TransportOk(Main)
    /\ response[Main].text = <<"{", "\"id\"", ":", "1", ",", "\"error\"", ":", "null", "}">>
    /\ openai.throw_exception_
    /\ outcome[Main].status = "raised" /\ outcome[Main].what = <<"null">>

\* C4: a transfer that succeeded with a text that is not JSON returns the
\* null value without raising, in hard and in soft mode.
C4_NonJsonNeverRaises ==
    \A t \in Threads :
        (Finished(t) /\ TransportOk(t) /\ response[t].text \in NonJsonTexts)
        => outcome[t].status = "returned" /\ outcome[t].json = JsonNull

C4_Witness ==
    /\ Finished(Main) /\ TransportOk(Main)
    /\ response[Main].text = <<"<html>">>
    /\ openai.throw_exception_ /\ session.throw_exception_
    /\ outcome[Main].status = "returned" /\ outcome[Main].json = JsonNull

\* The suffix each operation is documented to request.
DocumentedSuffix(op, id) ==
    CASE op \in {"model.list"}                    -> <<"models">>
      [] op \in {"model.retrieve"}                -> <<"models/">> \o id
      [] op \in {"completion.create"}             -> <<"completions">>
      [] op \in {"edit.create"}                   -> <<"edits">>
      [] op \in {"image.create"}                  -> <<"images/generations">>
      [] op \in {"image.edit"}                    -> <<"images/edits">>
      [] op \in {"image.variation"}               -> <<"images/variations">>
      [] op \in {"embedding.create"}              -> <<"embeddings">>
      [] op \in {"file.list", "file.upload"}      -> <<"files">>
      [] op \in {"file.retrieve"}                 -> <<"files/">> \o id
      [] op \in {"fine_tune.create", "fine_tune.list"} -> <<"fine-tunes">>
      [] op \in {"fine_tune.retrieve"}            -> <<"fine-tunes/">> \o id
      [] op \in {"moderation.create"}             -> <<"moderations">>
      [] OTHER -> (IF op \in {"file.content"} THEN <<"files/">> ELSE <<"fine-tunes/">>)
                  \o id
                  \o (CASE op \in {"file.content", "fine_tune.content"} -> <<"/content">>
                        [] op = "fine_tune.cancel" -> <<"/cancel">>
                        [] op = "fine_tune.events" -> <<"/events">>)

\* C5: the URL of the request a category operation puts on the wire is the
\* facade's base URL followed by the operation's suffix and path parameter.
C5_RequestUrl ==
    \A t \in Threads :
        (pc[t] = "perform" /\ call[t].op \in CategoryOps)
        => wire.url = openai.base_url \o DocumentedSuffix(call[t].op, call[t].id)

C5_Witness ==
    /\ pc[Main] = "perform" /\ call[Main].op = "file.content"
    /\ served # "NONE"
    /\ openai.base_url = <<"http://localhost:8080/">>
    /\ wire.url = <<"http://localhost:8080/", "files/", "id2", "/content">>

ContentTypeHeader == <<"Content-Type: application/json">>

\* C6: a request carries OpenAI-Organization exactly when the facade's
\* organization is set (with that value), and always carries Content-Type
\* and Authorization.
C6_OrganizationHeader ==
    \A t \in Threads :
        pc[t] = "perform"
        => LET hs == {wire.headers[i] : i \in 1..Len(wire.headers)}
           IN  /\ ContentTypeHeader \in hs
               /\ (<<"Authorization: Bearer ">> \o openai.token_) \in hs
               /\ \A org \in Organizations \ {EmptyStr} :
                     (<<"OpenAI-Organization: ">> \o org) \in hs
                     <=> openai.organization_ = org

\* C7: every accessor call returns the one instance, whose token,
\* organization and error mode are the arguments of the first call made.
C7_FirstCallWins ==
    singleton.called
    => /\ ctor.built = 1
       /\ singleton.returned = {1}
       /\ openai.token_ = singleton.first.token
       /\ openai.organization_ = singleton.first.organization
       /\ openai.throw_exception_ = singleton.first.throw_exception
       /\ session.token_ = singleton.first.token

C7_Witness ==
    /\ singleton.first = DefaultArgs
    /\ singleton.last = [token |-> <<"sk-A">>, organization |-> <<"org-1">>,
                         throw_exception |-> FALSE]
    /\ Quiescent /\ served # "NONE"
    /\ openai.token_ = EmptyStr /\ session.token_ = EmptyStr
    /\ openai.organization_ = EmptyStr /\ openai.throw_exception_

\* C8: at most one thread is between taking the lock in makeRequest and
\* leaving it, and the lock is held only by a thread that is there: a request
\* that failed, by return or by throw, has given it back.
C8_OneRequestAtATime ==
    /\ Cardinality({t \in Threads : pc[t] = "perform"}) <= 1
    /\ \A t \in Threads : pc[t] = "perform" <=> mutex_request_ = t
    /\ mutex_request_ \in Threads \cup {0}

C8_Witness ==
    \E t, u \in Threads :
        /\ t # u
        /\ Finished(t) /\ TransportFailed(t) /\ outcome[t].status = "raised"
        /\ pc[u] = "perform" /\ mutex_request_ = u

\* C9: the request a thread executes has the URL, the verb and the body that
\* thread configured for it (requests whose URL was read while another thread
\* was assigning url_, or whose body was read through a dead pointer, are not
\* even counted against the claim).
C9_OwnConfiguration ==
    \A t \in Threads :
        (pc[t] = "perform" /\ ~wire.raced /\ wire.body # DanglingBody)
        => /\ wire.url = call[t].complete_url
           /\ wire.method = call[t].verb
           /\ (call[t].verb = "POST" => wire.body = call[t].data)

\* C10: in a single-threaded sequence of calls a get is sent as GET without
\* a body and a post is sent as POST with the body of that call.
C10_VerbOfEachRequest ==
    \A t \in Threads :
        pc[t] = "perform"
        => /\ wire.method = call[t].verb
           /\ wire.body = IF call[t].verb = "POST" THEN call[t].data ELSE EmptyStr

C10_Witness ==
    /\ pc[Main] = "perform" /\ call[Main].op = "get"
    /\ served = "POST"
    /\ wire.method = "GET" /\ wire.body = EmptyStr

====
